---- MODULE Spec2Model ----
(***************************************************************************)
(* A model of src/process_pdfs.py: the structure-inference engine          *)
(* (extract_content_and_outline), title resolution, table cleaning and     *)
(* the batch driver (process_pdfs / process_single_pdf).                   *)
(*                                                                         *)
(* Text is a sequence of tokens.  Each token stands for a fixed substring: *)
(*   "bul"  the bullet glyph (one of the non-hyphen glyphs of the class)   *)
(*   "-"    a hyphen                                                       *)
(*   "sp"   one blank          "nl"  one line break                        *)
(*   "dot"  one '.'                                                        *)
(*   "w"    the word  Intro                                                *)
(*   "www"  www.x.com          "ADR" Address:       "adr" address:         *)
(*   "st"   12 main st, ca 90210                    "rsvp" rsvp:           *)
(* Font sizes are kept in half points so that round() is not the identity. *)
(***************************************************************************)
EXTENDS Integers, Sequences, FiniteSets, TLC

\* ------------------------------------------------------------------ bounds
MaxBlocks == 3
MaxContentBlocks == 2
MaxPages == 2
MaxFiles == 2
MaxToc == 2
MaxRows == 2
MaxCols == 2

\* ------------------------------------------------------------- text helpers
Tokens == {"bul", "-", "sp", "nl", "dot", "w", "www", "ADR", "adr", "st", "rsvp"}

TokLen(t) ==
  CASE t = "w" -> 5
    [] t = "www" -> 9
    [] t \in {"ADR", "adr"} -> 8
    [] t = "st" -> 21
    [] t = "rsvp" -> 5
    [] OTHER -> 1

RECURSIVE TextLen(_)
TextLen(s) == IF s = <<>> THEN 0 ELSE TokLen(Head(s)) + TextLen(Tail(s))

IsSpace(t) == t \in {"sp", "nl"}

RECURSIVE LStrip(_)
LStrip(s) == IF s # <<>> /\ IsSpace(Head(s)) THEN LStrip(Tail(s)) ELSE s

RECURSIVE RStrip(_)
RStrip(s) ==
  IF s # <<>> /\ IsSpace(s[Len(s)]) THEN RStrip(SubSeq(s, 1, Len(s) - 1)) ELSE s

Strip(s) == RStrip(LStrip(s))

\* " ".join(span_texts)
RECURSIVE JoinSpans(_)
JoinSpans(spans) ==
  IF spans = <<>> THEN <<>>
  ELSE IF Len(spans) = 1 THEN spans[1]
  ELSE spans[1] \o <<"sp">> \o JoinSpans(Tail(spans))

\* text.split('\n')
RECURSIVE SplitLines(_, _)
SplitLines(s, cur) ==
  IF s = <<>> THEN <<cur>>
  ELSE IF Head(s) = "nl" THEN <<cur>> \o SplitLines(Tail(s), <<>>)
  ELSE SplitLines(Tail(s), Append(cur, Head(s)))

Lower(s) == [i \in 1..Len(s) |-> IF s[i] = "ADR" THEN "adr" ELSE s[i]]

Contains(s, t) == \E i \in 1..Len(s) : s[i] = t

\* ----------------------------------------------------------- pattern matchers
BulletGlyphs == {"bul", "-"}

\* bullet_pattern.match(line.strip()) is not None
BulletMatches(line) ==
  LET l == Strip(line)
  IN  Len(l) >= 2 /\ l[1] \in BulletGlyphs /\ IsSpace(l[2])

\* match.group(2).strip()
BulletItem(line) ==
  LET l == Strip(line) IN Strip(SubSeq(l, 3, Len(l)))

classify_content_block(block_text) ==
  LET text_lower == Lower(block_text)
  IN  IF Contains(text_lower, "www") THEN "website"
      ELSE IF Contains(text_lower, "adr") \/ Contains(text_lower, "st") THEN "address"
      ELSE IF Contains(text_lower, "rsvp") THEN "rsvp"
      ELSE "paragraph"

\* all(c == '.' for c in block['text'].strip())
IsLeaderDots(text) == \A i \in 1..Len(Strip(text)) : Strip(text)[i] = "dot"

\* round(): half-point sizes, ties to the even integer
Round(h) ==
  IF h % 2 = 0 THEN h \div 2
  ELSE IF ((h - 1) \div 2) % 2 = 0 THEN (h - 1) \div 2 ELSE (h + 1) \div 2

\* span['flags'] & 1
LowBit(f) == f % 2

StyleKey(span) == <<Round(span.size), LowBit(span.flags)>>

\* f"H{n}": the label as its characters, decimal digits most significant first
DigitChar(d) == <<"0", "1", "2", "3", "4", "5", "6", "7", "8", "9">>[d + 1]

RECURSIVE DecDigits(_)
DecDigits(n) ==
  IF n < 10 THEN <<DigitChar(n)>> ELSE Append(DecDigits(n \div 10), DigitChar(n % 10))

HLabel(n) == <<"H">> \o DecDigits(n)

\* ------------------------------------------------------------------- inputs
\* A raw block of page.get_text("dict"): type 0 is text, 1 an image; size and
\* flags are those of block['lines'][0]['spans'][0]; spans are the span texts of
\* all lines in order.
ImageBlock == [type |-> 1, size |-> 0, flags |-> 0, spans |-> <<>>]

StyleSizes == {21, 24, 27}
StyleFlags == {1, 2}
StyleSpans == { << <<"w">> >>, << <<"bul">>, <<"w">> >>, << <<"dot", "dot">> >> }

ContentSizes == {24, 27}
ContentFlags == {2}
ContentSpans ==
  { << <<"w">> >>,
    << <<"sp">> >>,
    << <<"dot", "dot">> >>,
    << <<"bul">>, <<"w">> >>,
    << <<"bul", "w">> >>,
    << <<"-", "sp", "w", "nl", "bul", "sp", "w">> >>,
    << <<"w", "nl", "-", "sp", "w", "sp">> >>,
    << <<"ADR">>, <<"www">> >>,
    << <<"rsvp", "sp", "st">> >>,
    << <<"rsvp">> >> }

TextBlocks(sizes, flags, spans) ==
  [type : {0}, size : sizes, flags : flags, spans : spans]

SeqsUpTo(S, n) == UNION {[1..m -> S] : m \in 0..n}

\* the blocks of bs that lie on page p, in order
RECURSIVE OnPage(_, _, _, _)
OnPage(bs, pageOf, p, i) ==
  IF i > Len(bs) THEN <<>>
  ELSE IF pageOf[i] = p THEN <<bs[i]>> \o OnPage(bs, pageOf, p, i + 1)
  ELSE OnPage(bs, pageOf, p, i + 1)

\* the ways to lay n blocks out, in order, on np pages: the page of each block
PageMaps(n, np) ==
  {f \in [1..n -> 1..np] : \A i \in 1..n, j \in 1..n : i < j => f[i] <= f[j]}

Layout(bs, pageOf, np) == [p \in 1..np |-> OnPage(bs, pageOf, p, 1)]

\* doc.get_toc(): entries (level, title, page)
TocEntry(l, t, p) == [level |-> l, title |-> t, page |-> p]
Tocs == { <<>>, <<TocEntry(1, <<"w">>, 2), TocEntry(2, <<"st">>, 1)>> }

StyleBlocks == TextBlocks(StyleSizes, StyleFlags, StyleSpans)
ContentBlocks == TextBlocks(ContentSizes, ContentFlags, ContentSpans) \cup {ImageBlock}

\* a one-page document without a native ToC
IsStyleDoc(d) ==
  \E bs \in SeqsUpTo(StyleBlocks, MaxBlocks) : d = [pages |-> <<bs>>, toc |-> <<>>]

\* a document of up to MaxPages pages, with or without a native ToC
IsContentDoc(d) ==
  \E bs \in SeqsUpTo(ContentBlocks, MaxContentBlocks), np \in 0..MaxPages, t \in Tocs :
    \E pageOf \in PageMaps(Len(bs), np) :
      d = [pages |-> Layout(bs, pageOf, np), toc |-> t]

\* -------------------------------------------------------------------- state
VARIABLES
  doc,                  \* the open document: pages of raw blocks, native ToC
  pc,                   \* position in extract_content_and_outline
  page_num, blk,        \* the scan loops: page (1-based), block within the page
  styles,               \* Counter: <<[key, n], ...>> in insertion order
  all_blocks,
  body_style, heading_styles, sorted_heading_sizes, level_map,
  content_sections, outline, lists,
  k,                    \* the assembler loop: index into all_blocks
  ret                   \* the returned (content_sections, outline, lists)

evars == <<doc, pc, page_num, blk, styles, all_blocks, body_style, heading_styles,
           sorted_heading_sizes, level_map, content_sections, outline, lists, k, ret>>

VARIABLES
  files,                \* input_dir.glob("*.pdf"): the files of the batch
  fi,                   \* the loop of process_pdfs: index of the current file
  bpc,                  \* position in process_pdfs / process_single_pdf
  handle,               \* the local doc: "unbound", "open" or "closed"
  title, form_fields, static_form_fields, tables,   \* locals of process_single_pdf
  outputs,              \* per file: the <stem>.json written, if any
  log                   \* per file: what happened (attempts, raising step, handle)

bvars == <<files, fi, bpc, handle, title, form_fields, static_form_fields, tables,
           outputs, log>>

NoRet == [returned |-> FALSE]

ExtractStart ==
  /\ pc = "scan" /\ page_num = 1 /\ blk = 1
  /\ styles = <<>> /\ all_blocks = <<>>
  /\ body_style = <<>> /\ heading_styles = {} /\ sorted_heading_sizes = <<>>
  /\ level_map = <<>>
  /\ content_sections = <<>> /\ outline = <<>> /\ lists = <<>>
  /\ k = 0 /\ ret = NoRet

\* ------------------------------------------------ style histogram (104-116)
CounterAdd_PerBlock(c, key, n) ==
  IF \E i \in 1..Len(c) : c[i].key = key
  THEN [i \in 1..Len(c) |-> IF c[i].key = key THEN [c[i] EXCEPT !.n = @ + 1] ELSE c[i]]
  ELSE Append(c, [key |-> key, n |-> 1])

\* styles[style_key] += n
CounterAdd(c, key, n) ==
  IF \E i \in 1..Len(c) : c[i].key = key
  THEN [i \in 1..Len(c) |-> IF c[i].key = key THEN [c[i] EXCEPT !.n = @ + n] ELSE c[i]]
  ELSE Append(c, [key |-> key, n |-> n])

ScanBlock ==
  /\ bpc = "extract"
  /\ pc = "scan"
  /\ page_num <= Len(doc.pages)
  /\ blk <= Len(doc.pages[page_num])
  /\ LET block == doc.pages[page_num][blk]
         block_text == Strip(JoinSpans(block.spans))
         style_key == StyleKey(block)
     IN  IF block.type = 0 /\ block_text # <<>>
         THEN /\ styles' = CounterAdd(styles, style_key, TextLen(block_text))
              /\ all_blocks' = Append(all_blocks,
                     [style |-> style_key, text |-> block_text, page |-> page_num,
                      bbox |-> <<page_num, blk>>])
         ELSE UNCHANGED <<styles, all_blocks>>
  /\ blk' = blk + 1
  /\ UNCHANGED <<doc, pc, page_num, body_style, heading_styles, sorted_heading_sizes,
                 level_map, content_sections, outline, lists, k, ret>>
  /\ UNCHANGED bvars

ScanNextPage ==
  /\ bpc = "extract"
  /\ pc = "scan"
  /\ page_num <= Len(doc.pages)
  /\ blk > Len(doc.pages[page_num])
  /\ page_num' = page_num + 1
  /\ blk' = 1
  /\ UNCHANGED <<doc, pc, styles, all_blocks, body_style, heading_styles,
                 sorted_heading_sizes, level_map, content_sections, outline, lists, k, ret>>
  /\ UNCHANGED bvars

\* ------------------------------------------- body / heading styles (118-125)
\* styles.most_common(1)[0][0]: the first key, in insertion order, of greatest count
MostCommon(c) ==
  LET best == CHOOSE i \in 1..Len(c) :
                /\ \A j \in 1..Len(c) : c[j].n <= c[i].n
                /\ \A j \in 1..(i - 1) : c[j].n < c[i].n
  IN  c[best].key

HeadingStyles(c, body) ==
  {c[i].key : i \in {j \in 1..Len(c) :
      \/ c[j].key[1] > body[1]
      \/ (c[j].key[1] = body[1] /\ c[j].key[2] > body[2])}}

\* sorted(S, reverse=True)
RECURSIVE SortedDesc(_)
SortedDesc(S) ==
  IF S = {} THEN <<>>
  ELSE LET m == CHOOSE x \in S : \A y \in S : y <= x
       IN  <<m>> \o SortedDesc(S \ {m})

\* {size: f"H{i+1}" for i, size in enumerate(sorted_heading_sizes)}
LevelMap(sizes) ==
  [s \in {sizes[i] : i \in 1..Len(sizes)} |->
     HLabel(CHOOSE i \in 1..Len(sizes) : sizes[i] = s)]

Classify ==
  /\ bpc = "extract"
  /\ pc = "scan"
  /\ page_num > Len(doc.pages)
  /\ IF styles = <<>>
     THEN /\ ret' = [returned |-> TRUE, content_sections |-> <<>>, outline |-> <<>>,
                     lists |-> <<>>]
          /\ pc' = "done"
          /\ UNCHANGED <<body_style, heading_styles, sorted_heading_sizes, level_map, k>>
     ELSE /\ body_style' = MostCommon(styles)
          /\ heading_styles' = HeadingStyles(styles, body_style')
          /\ sorted_heading_sizes' = SortedDesc({s[1] : s \in heading_styles'})
          /\ level_map' = LevelMap(sorted_heading_sizes')
          /\ k' = 1
          /\ pc' = "assemble"
          /\ UNCHANGED ret
  /\ UNCHANGED <<doc, page_num, blk, styles, all_blocks, content_sections, outline, lists>>
  /\ UNCHANGED bvars

\* ------------------------------------------------------ assembler (126-160)
Section(type, content, block, level) ==
  [type |-> type, content |-> content, page |-> block.page, bbox |-> block.bbox,
   level |-> level]

\* the position of x in the list s: s.index(x) (0-based)
IndexOf(s, x) == (CHOOSE i \in 1..Len(s) : s[i] = x /\ \A j \in 1..(i - 1) : s[j] # x) - 1

HeadingLevel_ZeroBased(block) ==
  Cardinality(DOMAIN level_map) - (CHOOSE i \in 1..Len(sorted_heading_sizes) :
                                     sorted_heading_sizes[i] = block.style[1])

\* len(level_map) - sorted_heading_sizes.index(block['style'][0])
HeadingLevel(block) ==
  Cardinality(DOMAIN level_map) - IndexOf(sorted_heading_sizes, block.style[1])

\* the list branch (139-147): one list record and one section per matching line
RECURSIVE ListSections(_, _)
ListSections(lines, block) ==
  IF lines = <<>> THEN <<>>
  ELSE IF BulletMatches(Head(lines))
       THEN <<Section("list_item", BulletItem(Head(lines)), block, 0)>>
            \o ListSections(Tail(lines), block)
       ELSE ListSections(Tail(lines), block)

ListRecords(secs) ==
  [i \in 1..Len(secs) |-> [page |-> secs[i].page, items |-> <<secs[i].content>>]]

OutlineEntry(level, text, page) == [level |-> level, text |-> text, page |-> page]

IsHeading(block) == block.style \in heading_styles

BlockKind_HeadingFirst(block) ==
  IF IsLeaderDots(block.text) THEN "skip"
  ELSE IF IsHeading(block) THEN "heading"
  ELSE IF \E i \in 1..Len(SplitLines(block.text, <<>>)) :
            BulletMatches(SplitLines(block.text, <<>>)[i]) THEN "list"
  ELSE "semantic"

\* the branch taken for a block: lines 128, 138, 148, 155
BlockKind(block) ==
  IF IsLeaderDots(block.text) THEN "skip"
  ELSE IF \E i \in 1..Len(SplitLines(block.text, <<>>)) :
            BulletMatches(SplitLines(block.text, <<>>)[i]) THEN "list"
  ELSE IF IsHeading(block) THEN "heading"
  ELSE "semantic"

AssembleBlock ==
  /\ bpc = "extract"
  /\ pc = "assemble"
  /\ k <= Len(all_blocks)
  /\ LET block == all_blocks[k]
         kind == BlockKind(block)
     IN  CASE kind = "skip" -> UNCHANGED <<content_sections, outline, lists>>
           [] kind = "list" ->
                LET secs == ListSections(SplitLines(block.text, <<>>), block)
                IN  /\ content_sections' = content_sections \o secs
                    /\ lists' = lists \o ListRecords(secs)
                    /\ UNCHANGED outline
           [] kind = "heading" ->
                LET level == HeadingLevel(block)
                IN  /\ outline' = Append(outline,
                                         OutlineEntry(HLabel(level), block.text, block.page))
                    /\ content_sections' = Append(content_sections,
                                         Section("heading", block.text, block, level))
                    /\ UNCHANGED lists
           [] OTHER ->
                /\ content_sections' = Append(content_sections,
                      Section(classify_content_block(block.text), block.text, block, 0))
                /\ UNCHANGED <<outline, lists>>
  /\ k' = k + 1
  /\ UNCHANGED <<doc, pc, page_num, blk, styles, all_blocks, body_style, heading_styles,
                 sorted_heading_sizes, level_map, ret>>
  /\ UNCHANGED bvars

\* ------------------------------------------------ native ToC, return (162-165)
TocOutline(toc) ==
  [i \in 1..Len(toc) |-> OutlineEntry(HLabel(toc[i].level), toc[i].title, toc[i].page)]

FinalOutline_Merged(toc, inferred) == inferred \o TocOutline(toc)

\* if toc: outline = [...]
FinalOutline(toc, inferred) == IF toc # <<>> THEN TocOutline(toc) ELSE inferred

Finish ==
  /\ bpc = "extract"
  /\ pc = "assemble"
  /\ k > Len(all_blocks)
  /\ outline' = FinalOutline(doc.toc, outline)
  /\ ret' = [returned |-> TRUE, content_sections |-> content_sections,
             outline |-> outline', lists |-> lists]
  /\ pc' = "done"
  /\ UNCHANGED <<doc, page_num, blk, styles, all_blocks, body_style, heading_styles,
                 sorted_heading_sizes, level_map, content_sections, lists, k>>
  /\ UNCHANGED bvars

ExtractNext == ScanBlock \/ ScanNextPage \/ Classify \/ AssembleBlock \/ Finish

\* ============================================================ title (8-15)
\* Title text uses the tokens "MSW" (the marker  Microsoft Word -), "sp", "/",
\* "." and the words "w" (Form123), "x" (docx), "d" (a directory name).

\* title.replace('Microsoft Word -', '')
RemoveMarker(s) == SelectSeq(s, LAMBDA t : t # "MSW")

\* the components of a path: the text between '/' separators
RECURSIVE SplitSlash(_, _)
SplitSlash(s, cur) ==
  IF s = <<>> THEN <<cur>>
  ELSE IF Head(s) = "/" THEN <<cur>> \o SplitSlash(Tail(s), <<>>)
  ELSE SplitSlash(Tail(s), Append(cur, Head(s)))

\* Path(title).name: the last component that is neither empty nor '.'
PathName(s) ==
  LET parts == SelectSeq(SplitSlash(s, <<>>), LAMBDA c : c # <<>> /\ c # <<".">>)
  IN  IF parts = <<>> THEN <<>> ELSE parts[Len(parts)]

\* Path(title).stem: the name without its last suffix; a dot that starts or
\* ends the name begins no suffix
PathStem(s) ==
  LET name == PathName(s)
      dots == {i \in 1..Len(name) : name[i] = "."}
      i == IF dots = {} THEN 0 ELSE CHOOSE d \in dots : \A e \in dots : e <= d
  IN  IF 1 < i /\ i < Len(name) THEN SubSeq(name, 1, i - 1) ELSE name

\* get_document_title(doc); meta is doc.metadata['title'], <<>> when it is
\* absent or empty
get_document_title(meta) ==
  IF meta # <<>>
  THEN LET stripped == Strip(meta)
           cleaned == IF Contains(stripped, "MSW") THEN Strip(RemoveMarker(stripped))
                      ELSE stripped
       IN  PathStem(cleaned)
  ELSE <<>>

\* the code point of a character of a level label
CharCode(c) ==
  CASE c = "H" -> 72
    [] c = "0" -> 48 [] c = "1" -> 49 [] c = "2" -> 50 [] c = "3" -> 51
    [] c = "4" -> 52 [] c = "5" -> 53 [] c = "6" -> 54 [] c = "7" -> 55
    [] c = "8" -> 56 [] c = "9" -> 57

\* a < b for two strings
RECURSIVE StrLess(_, _)
StrLess(a, b) ==
  IF b = <<>> THEN FALSE
  ELSE IF a = <<>> THEN TRUE
  ELSE IF CharCode(Head(a)) # CharCode(Head(b)) THEN CharCode(Head(a)) < CharCode(Head(b))
  ELSE StrLess(Tail(a), Tail(b))

\* the label's number, for a comparison by number
RECURSIVE DigitsValue(_, _)
DigitsValue(s, acc) ==
  IF s = <<>> THEN acc ELSE DigitsValue(Tail(s), 10 * acc + (CharCode(Head(s)) - 48))

KeyLess_Numeric(x, y) ==
  \/ DigitsValue(Tail(x.level), 0) < DigitsValue(Tail(y.level), 0)
  \/ (x.level = y.level /\ x.page < y.page)

\* (x['level'], x['page']) < (y['level'], y['page'])
KeyLess(x, y) ==
  \/ StrLess(x.level, y.level)
  \/ (x.level = y.level /\ x.page < y.page)

\* sorted(outline, key=...): a stable sort
RECURSIVE InsertSorted(_, _)
InsertSorted(sorted, x) ==
  IF sorted = <<>> THEN <<x>>
  ELSE IF KeyLess(x, Head(sorted)) THEN <<x>> \o sorted
  ELSE <<Head(sorted)>> \o InsertSorted(Tail(sorted), x)

RECURSIVE SortedOutline(_)
SortedOutline(ol) ==
  IF ol = <<>> THEN <<>>
  ELSE InsertSorted(SortedOutline(SubSeq(ol, 1, Len(ol) - 1)), ol[Len(ol)])

\* lines 177-178
TitleFallback(meta_title, ol) ==
  IF meta_title = <<>> /\ ol # <<>> THEN SortedOutline(ol)[1].text ELSE meta_title

\* line 181: the "title" written
OutputTitle(final_title, stem) == IF final_title # <<>> THEN final_title ELSE stem

\* ====================================================== tables (51-83)
\* A raw cell is None or a string; a string is a token sequence.
None == [none |-> TRUE]

\* "" if item is None else str(item).strip()
CleanCell(item) == IF item = None THEN <<>> ELSE Strip(item.str)

Max(S) == CHOOSE x \in S : \A y \in S : y <= x

\* lines 60-61: the grid is skipped before cleaning
IsDegenerate(table_data) ==
  Len(table_data) <= 1 /\ \A r \in 1..Len(table_data) : Len(table_data[r]) <= 1

\* lines 63-78; <<>> when no row is left (line 68)
CleanTable(table_data) ==
  LET cleaned_rows == [r \in 1..Len(table_data) |->
                         [c \in 1..Len(table_data[r]) |-> CleanCell(table_data[r][c])]]
      non_empty_rows == SelectSeq(cleaned_rows,
                                  LAMBDA row : \E c \in 1..Len(row) : row[c] # <<>>)
  IN  IF non_empty_rows = <<>> THEN <<>>
      ELSE
        LET max_cols == Max({Len(non_empty_rows[r]) : r \in 1..Len(non_empty_rows)})
            padded_rows == [r \in 1..Len(non_empty_rows) |->
                              [c \in 1..max_cols |->
                                 IF c <= Len(non_empty_rows[r]) THEN non_empty_rows[r][c]
                                 ELSE <<>>]]
            non_empty_col_indices ==
              {c \in 1..max_cols : \E r \in 1..Len(padded_rows) : padded_rows[r][c] # <<>>}
            KeepCols(row) ==
              LET F[c \in 0..max_cols] ==
                    IF c = 0 THEN <<>>
                    ELSE IF c \in non_empty_col_indices THEN Append(F[c - 1], row[c])
                    ELSE F[c - 1]
              IN  F[max_cols]
        IN  [r \in 1..Len(padded_rows) |-> KeepCols(padded_rows[r])]

\* the tables one page adds (lines 59-80)
RECURSIVE PageTables(_, _)
PageTables(grids, page_no) ==
  IF grids = <<>> THEN <<>>
  ELSE LET table_data == Head(grids)
           rest == PageTables(Tail(grids), page_no)
       IN  IF IsDegenerate(table_data) \/ CleanTable(table_data) = <<>> THEN rest
           ELSE <<[page |-> page_no, data |-> CleanTable(table_data)]>> \o rest

\* extract_tables_with_pdfplumber(pdf_path).  pdf.open_raises: pdfplumber.open
\* raises; a page holds the grids handled before anything raises on it, and
\* raises: whether the collaborator then raises.  The except clause (81-82)
\* leaves what was appended so far in tables.
RECURSIVE TablesFrom(_, _)
TablesFrom(pages, i) ==
  IF i > Len(pages) THEN <<>>
  ELSE LET here == PageTables(pages[i].grids, i)
       IN  IF pages[i].raises THEN here ELSE here \o TablesFrom(pages, i + 1)

extract_tables_with_pdfplumber(pdf) ==
  IF pdf.open_raises THEN <<>> ELSE TablesFrom(pdf.pages, 1)

\* ======================================= process_single_pdf, process_pdfs
NoOutput == [state |-> "none"]
NoLog == [attempts |-> 0, raised |-> "none", tables_raised |-> FALSE, handle |-> "unbound"]

\* locals that are not bound (before their assignment, after the return)
LocalsUnbound ==
  /\ title = <<>> /\ form_fields = <<>> /\ static_form_fields = <<>> /\ tables = <<>>

ExtractIdle ==
  /\ pc = "idle" /\ page_num = 0 /\ blk = 0
  /\ styles = <<>> /\ all_blocks = <<>>
  /\ body_style = <<>> /\ heading_styles = {} /\ sorted_heading_sizes = <<>>
  /\ level_map = <<>>
  /\ content_sections = <<>> /\ outline = <<>> /\ lists = <<>>
  /\ k = 0 /\ ret = NoRet

NoDoc == [pages |-> <<>>, toc |-> <<>>]

\* bool(doc): a document is a container of its pages (line 20, line 104), so it
\* is false when it has none
Truthy(d) == Len(d.pages) > 0

\* the table collaborator raised while the file was processed
TablesRaise(pdf) ==
  pdf.open_raises \/ \E i \in 1..Len(pdf.pages) : pdf.pages[i].raises

\* lines 196-205
BatchStart ==
  /\ bpc = "start"
  /\ IF files = <<>>
     THEN bpc' = "batch_done" /\ UNCHANGED fi
     ELSE bpc' = "open" /\ fi' = 1
  /\ UNCHANGED <<files, handle, title, form_fields, static_form_fields, tables, outputs, log>>
  /\ UNCHANGED evars

\* line 170: doc = fitz.open(pdf_path)
OpenDoc ==
  /\ bpc = "open"
  /\ log' = [log EXCEPT ![fi].attempts = @ + 1,
                        ![fi].raised = IF files[fi].open_raises THEN "open" ELSE @,
                        ![fi].handle = IF files[fi].open_raises THEN @ ELSE "open"]
  /\ IF files[fi].open_raises
     THEN bpc' = "except" /\ UNCHANGED <<handle, doc>>
     ELSE bpc' = "title" /\ handle' = "open" /\ doc' = files[fi].doc
  /\ UNCHANGED <<files, fi, title, form_fields, static_form_fields, tables, outputs>>
  /\ UNCHANGED <<pc, page_num, blk, styles, all_blocks, body_style, heading_styles,
                 sorted_heading_sizes, level_map, content_sections, outline, lists, k, ret>>

\* line 171
GetTitle ==
  /\ bpc = "title"
  /\ title' = get_document_title(files[fi].meta)
  /\ bpc' = "form"
  /\ UNCHANGED <<files, fi, handle, form_fields, static_form_fields, tables, outputs, log>>
  /\ UNCHANGED evars

\* line 172: the widgets of all pages, as the collaborator lists them
FormFields ==
  /\ bpc = "form"
  /\ form_fields' = files[fi].widgets
  /\ bpc' = "call_extract"
  /\ UNCHANGED <<files, fi, handle, title, static_form_fields, tables, outputs, log>>
  /\ UNCHANGED evars

\* line 173: the call of extract_content_and_outline(doc)
ExtractCall ==
  /\ bpc = "call_extract"
  /\ bpc' = "extract"
  /\ pc' = "scan" /\ page_num' = 1 /\ blk' = 1
  /\ styles' = <<>> /\ all_blocks' = <<>>
  /\ body_style' = <<>> /\ heading_styles' = {} /\ sorted_heading_sizes' = <<>>
  /\ level_map' = <<>>
  /\ content_sections' = <<>> /\ outline' = <<>> /\ lists' = <<>>
  /\ k' = 0 /\ ret' = NoRet
  /\ UNCHANGED <<files, fi, handle, title, form_fields, static_form_fields, tables,
                 outputs, log, doc>>

\* line 173: its return
ExtractReturn ==
  /\ bpc = "extract"
  /\ pc = "done"
  /\ bpc' = "static"
  /\ UNCHANGED <<files, fi, handle, title, form_fields, static_form_fields, tables,
                 outputs, log>>
  /\ UNCHANGED evars

\* line 174: the numbered lines of the full text, as the matcher finds them
StaticFields ==
  /\ bpc = "static"
  /\ static_form_fields' = files[fi].numbered
  /\ bpc' = "tables"
  /\ UNCHANGED <<files, fi, handle, title, form_fields, tables, outputs, log>>
  /\ UNCHANGED evars

\* line 175
Tables ==
  /\ bpc = "tables"
  /\ tables' = extract_tables_with_pdfplumber(files[fi].pdf)
  /\ log' = [log EXCEPT ![fi].tables_raised = TablesRaise(files[fi].pdf)]
  /\ bpc' = "fallback"
  /\ UNCHANGED <<files, fi, handle, title, form_fields, static_form_fields, outputs>>
  /\ UNCHANGED evars

\* lines 177-178
Fallback ==
  /\ bpc = "fallback"
  /\ title' = TitleFallback(title, ret.outline)
  /\ bpc' = "write"
  /\ UNCHANGED <<files, fi, handle, form_fields, static_form_fields, tables, outputs, log>>
  /\ UNCHANGED evars

\* lines 180-190
WriteOutput ==
  /\ bpc = "write"
  /\ outputs' = [outputs EXCEPT ![fi] =
       [state |-> "complete", name |-> files[fi].stem,
        title |-> OutputTitle(title, files[fi].stem),
        outline |-> ret.outline, content_sections |-> ret.content_sections,
        tables |-> tables, form_fields |-> form_fields,
        static_form_fields |-> static_form_fields]]
  /\ bpc' = "finally"
  /\ UNCHANGED <<files, fi, handle, title, form_fields, static_form_fields, tables, log>>
  /\ UNCHANGED evars

\* an exception in one of the calls of lines 171-178
StepRaises ==
  /\ bpc \in {"title", "form", "extract", "static", "fallback"}
  /\ log' = [log EXCEPT ![fi].raised = bpc]
  /\ bpc' = "except"
  /\ UNCHANGED <<files, fi, handle, title, form_fields, static_form_fields, tables, outputs>>
  /\ UNCHANGED evars

\* an exception in lines 187-188: open() fails and no file is made, or
\* json.dump fails and leaves a file that is not complete
WriteRaises ==
  /\ bpc = "write"
  /\ \E made \in BOOLEAN :
       outputs' = [outputs EXCEPT ![fi] =
                     IF made THEN [state |-> "partial", name |-> files[fi].stem] ELSE @]
  /\ log' = [log EXCEPT ![fi].raised = "write"]
  /\ bpc' = "except"
  /\ UNCHANGED <<files, fi, handle, title, form_fields, static_form_fields, tables>>
  /\ UNCHANGED evars

Except_Propagates ==
  /\ bpc = "except"
  /\ bpc' = "batch_done"
  /\ UNCHANGED <<files, fi, handle, title, form_fields, static_form_fields, tables,
                 outputs, log>>
  /\ UNCHANGED evars

\* lines 191-192
Except ==
  /\ bpc = "except"
  /\ bpc' = "finally"
  /\ UNCHANGED <<files, fi, handle, title, form_fields, static_form_fields, tables,
                 outputs, log>>
  /\ UNCHANGED evars

\* the finally clause: 'doc' in locals() and doc
ShouldClose(h, d) == h = "open" /\ Truthy(d)

\* lines 193-194, the return, and the next round of the loop of line 204
Finally ==
  /\ bpc = "finally"
  /\ log' = [log EXCEPT ![fi].handle = IF ShouldClose(handle, doc) THEN "closed" ELSE @]
  /\ handle' = "unbound"
  /\ title' = <<>> /\ form_fields' = <<>> /\ static_form_fields' = <<>> /\ tables' = <<>>
  /\ doc' = NoDoc
  /\ pc' = "idle" /\ page_num' = 0 /\ blk' = 0
  /\ styles' = <<>> /\ all_blocks' = <<>>
  /\ body_style' = <<>> /\ heading_styles' = {} /\ sorted_heading_sizes' = <<>>
  /\ level_map' = <<>>
  /\ content_sections' = <<>> /\ outline' = <<>> /\ lists' = <<>>
  /\ k' = 0 /\ ret' = NoRet
  /\ IF fi < Len(files)
     THEN fi' = fi + 1 /\ bpc' = "open"
     ELSE bpc' = "batch_done" /\ UNCHANGED fi
  /\ UNCHANGED <<files, outputs>>

BatchNext ==
  \/ BatchStart \/ OpenDoc \/ GetTitle \/ FormFields \/ ExtractCall
  \/ ScanBlock \/ ScanNextPage \/ Classify \/ AssembleBlock \/ Finish
  \/ ExtractReturn \/ StaticFields \/ Tables \/ Fallback \/ WriteOutput
  \/ StepRaises \/ WriteRaises \/ Except \/ Finally

vars == <<evars, bvars>>

\* --------------------------------------------------------- specifications
\* extract_content_and_outline alone, on a document that is open
BatchIdle ==
  /\ files = <<>> /\ fi = 0 /\ bpc = "extract" /\ handle = "open"
  /\ LocalsUnbound /\ outputs = <<>> /\ log = <<>>

Init == IsContentDoc(doc) /\ ExtractStart /\ BatchIdle
Next == ExtractNext
Spec == Init /\ [][Next]_vars

InitStyle == IsStyleDoc(doc) /\ ExtractStart /\ BatchIdle
SpecStyle == InitStyle /\ [][Next]_vars

\* -------------------------------------------------- the batch: SpecBatch
TextBlock(size, flags, spans) == [type |-> 0, size |-> size, flags |-> flags, spans |-> spans]

HeadingBlock == TextBlock(27, 2, << <<"w">> >>)
BodyBlock == TextBlock(21, 2, << <<"st">> >>)

ZeroPageDoc == [pages |-> <<>>, toc |-> <<>>]
OnePageDoc == [pages |-> << <<HeadingBlock, BodyBlock>> >>, toc |-> <<>>]
TwoPageDoc == [pages |-> << <<HeadingBlock, BodyBlock>>, <<BodyBlock>> >>, toc |-> <<>>]

Str(s) == [str |-> s]
GoodGrid == << <<Str(<<"w">>), Str(<<"w">>)>>, <<Str(<<"w">>), None>> >>

\* what pdfplumber finds in the file, page by page
PlumberPage(grids, raises) == [grids |-> grids, raises |-> raises]
Plumber(open_raises, pages) == [open_raises |-> open_raises, pages |-> pages]

PdfEmpty == Plumber(FALSE, <<>>)
PdfOnePage == Plumber(FALSE, <<PlumberPage(<<GoodGrid>>, FALSE)>>)
PdfOk == Plumber(FALSE, <<PlumberPage(<<GoodGrid>>, FALSE), PlumberPage(<<>>, FALSE)>>)
PdfRaisesLater ==
  Plumber(FALSE, <<PlumberPage(<<GoodGrid>>, FALSE), PlumberPage(<<>>, TRUE)>>)

\* the stem of the i-th file of the directory: names in a directory differ
StemOf(i) == <<"w", DigitChar(i)>>

File(i, open_raises, meta, d, pdf) ==
  [stem |-> StemOf(i), open_raises |-> open_raises, meta |-> meta, doc |-> d,
   widgets |-> <<[name |-> "f", page |-> 1]>>, numbered |-> <<>>, pdf |-> pdf]

\* both libraries read the same file, so the page counts agree; of a file that
\* fitz cannot open nothing else is read
BatchKinds ==
  {kind \in [open_raises : BOOLEAN, doc : {ZeroPageDoc, TwoPageDoc},
             pdf : {PdfEmpty, PdfOk, PdfRaisesLater, Plumber(TRUE, <<>>)}] :
     IF kind.open_raises THEN kind.doc = ZeroPageDoc /\ kind.pdf = PdfEmpty
     ELSE kind.pdf.open_raises \/ Len(kind.pdf.pages) = Len(kind.doc.pages)}

BatchStartState ==
  /\ fi = 0 /\ bpc = "start" /\ handle = "unbound"
  /\ LocalsUnbound
  /\ outputs = [i \in 1..Len(files) |-> NoOutput]
  /\ log = [i \in 1..Len(files) |-> NoLog]
  /\ doc = NoDoc /\ ExtractIdle

InitBatch ==
  /\ \E n \in 0..MaxFiles : \E ks \in [1..n -> BatchKinds] :
       files = [i \in 1..n |-> File(i, ks[i].open_raises, <<>>, ks[i].doc, ks[i].pdf)]
  /\ BatchStartState

SpecBatch == InitBatch /\ [][BatchNext]_vars

\* ----------------------------------------- one file, its title: SpecTitle
MetaTitles ==
  { <<>>, <<"sp">>, <<"w">>, <<"MSW">>, <<"MSW", "sp", "w", ".", "x">>,
    <<"d", "/", "w", ".", "x">>, <<".">>, <<"/">>, <<".", "x">>, <<"w", ".">> }

TitleTocEntries ==
  {TocEntry(l, t, p) : l \in {2, 10}, t \in {<<>>, <<"w">>, <<"x">>}, p \in {1, 2}}

\* a body block between a smaller and a larger heading
TitleBlocks ==
  << TextBlock(24, 2, << <<"x">> >>), TextBlock(21, 2, << <<"st">> >>),
     TextBlock(27, 2, << <<"w">> >>) >>

InitTitle ==
  /\ \E m \in MetaTitles, t \in SeqsUpTo(TitleTocEntries, MaxToc),
        bs \in {<<>>, TitleBlocks} :
       files = <<File(1, FALSE, m, [pages |-> <<bs>>, toc |-> t], PdfOnePage)>>
  /\ BatchStartState

SpecTitle == InitTitle /\ [][BatchNext]_vars

\* ---------------------------------------- one file, its tables: SpecTables
Cells == {None, Str(<<"sp">>), Str(<<"w">>)}

Grids == SeqsUpTo(SeqsUpTo(Cells, MaxCols), MaxRows)

InitTables ==
  /\ \E g \in Grids :
       files = <<File(1, FALSE, <<>>, OnePageDoc,
                      Plumber(FALSE, <<PlumberPage(<<g>>, FALSE)>>))>>
  /\ BatchStartState

SpecTables == InitTables /\ [][BatchNext]_vars

\* ===================================================================== claims
\* the text blocks the assembler has gone through so far
Processed == IF pc = "scan" THEN {} ELSE 1..(k - 1)

SectionsOf(block) ==
  {i \in 1..Len(content_sections) : content_sections[i].bbox = block.bbox}

MatchingLines(block) ==
  LET lines == SplitLines(block.text, <<>>)
  IN  {i \in 1..Len(lines) : BulletMatches(lines[i])}

PosLeq(a, b) == a[1] < b[1] \/ (a[1] = b[1] /\ a[2] <= b[2])

IsHeadingSection(s) == s.type = "heading"
IsListSection(s) == s.type = "list_item"

\* C1: every text block that is not a leader-dot artifact is labelled by the
\* precedence list > heading > semantic class and yields its sections once: a
\* block with bullet lines yields one list_item section of level 0 and one list
\* record per matching line and no heading section or outline entry, even in a
\* heading style; otherwise a heading-style block yields exactly one heading
\* section and one outline entry; otherwise exactly one section of the
\* classifier's type, level 0.  Sections follow page order, then block order.
C1_Precedence ==
  LET heads == SelectSeq(content_sections, IsHeadingSection)
      items == SelectSeq(content_sections, IsListSection)
  IN
  /\ \A b \in Processed :
       LET block == all_blocks[b]
           secs == SectionsOf(block)
           m == Cardinality(MatchingLines(block))
       IN  IF IsLeaderDots(block.text) THEN secs = {}
           ELSE IF m > 0
             THEN /\ Cardinality(secs) = m
                  /\ \A i \in secs : /\ content_sections[i].type = "list_item"
                                     /\ content_sections[i].level = 0
                                     /\ content_sections[i].page = block.page
           ELSE IF block.style \in heading_styles
             THEN /\ Cardinality(secs) = 1
                  /\ \A i \in secs : /\ content_sections[i].type = "heading"
                                     /\ content_sections[i].content = block.text
                                     /\ content_sections[i].page = block.page
           ELSE /\ Cardinality(secs) = 1
                /\ \A i \in secs :
                     /\ content_sections[i].type = classify_content_block(block.text)
                     /\ content_sections[i].type # "heading"
                     /\ content_sections[i].content = block.text
                     /\ content_sections[i].level = 0
                     /\ content_sections[i].page = block.page
  /\ \A i \in 1..Len(content_sections) :
       \E b \in Processed : content_sections[i].bbox = all_blocks[b].bbox
  /\ \A i \in 1..Len(content_sections), j \in 1..Len(content_sections) :
       i < j => PosLeq(content_sections[i].bbox, content_sections[j].bbox)
  /\ Len(lists) = Len(items)
  /\ \A j \in 1..Len(lists) :
       lists[j] = [page |-> items[j].page, items |-> <<items[j].content>>]
  /\ pc = "assemble" =>
       /\ Len(outline) = Len(heads)
       /\ \A j \in 1..Len(outline) :
            outline[j].text = heads[j].content /\ outline[j].page = heads[j].page
  /\ ret.returned => ret.content_sections = content_sections /\ ret.lists = lists

\* a heading-style block with two bullet lines, behind another block's section
C1_Witness ==
  /\ pc = "done"
  /\ \E b \in Processed :
       /\ all_blocks[b].style \in heading_styles
       /\ Cardinality(MatchingLines(all_blocks[b])) = 2
       /\ Cardinality(SectionsOf(all_blocks[b])) = 2
       /\ \E i \in 1..Len(content_sections) :
            content_sections[i].bbox # all_blocks[b].bbox

\* the accumulated character weight of a style, counted from the blocks
RECURSIVE WeightIn(_, _)
WeightIn(blocks, key) ==
  IF blocks = <<>> THEN 0
  ELSE (IF Head(blocks).style = key THEN TextLen(Head(blocks).text) ELSE 0)
       + WeightIn(Tail(blocks), key)

Weight(key) == WeightIn(all_blocks, key)

Classified == pc = "assemble" \/ (pc = "done" /\ all_blocks # <<>>)

\* C2: for a non-empty histogram the body style is a key of greatest accumulated
\* character weight; every heading style's font size is >= the body's, equal
\* only when the heading style is emphasised and the body style is not; the
\* body style is never a heading style.
C2_BodyAndHeadingStyles ==
  Classified =>
    /\ \E b \in 1..Len(all_blocks) : all_blocks[b].style = body_style
    /\ \A b \in 1..Len(all_blocks) : Weight(all_blocks[b].style) <= Weight(body_style)
    /\ \A h \in heading_styles :
         /\ \E b \in 1..Len(all_blocks) : all_blocks[b].style = h
         /\ h[1] >= body_style[1]
         /\ h[1] = body_style[1] => (h[2] = 1 /\ body_style[2] = 0)
    /\ body_style \notin heading_styles

\* a heading style of the body's size, and another style as heavy as the body
C2_Witness ==
  /\ pc = "done"
  /\ \E h \in heading_styles : h[1] = body_style[1]
  /\ \E h \in heading_styles : h[1] > body_style[1]
  /\ \E b \in 1..Len(all_blocks) :
       all_blocks[b].style # body_style /\ Weight(all_blocks[b].style) = Weight(body_style)

HeadingSizes == {h[1] : h \in heading_styles}

LevelsUsed ==
  {content_sections[i].level :
     i \in {j \in 1..Len(content_sections) : content_sections[j].type = "heading"}}

OutlineLabels == {outline[i].level : i \in 1..Len(outline)}

IsHeadingBlock(block) ==
  /\ ~IsLeaderDots(block.text)
  /\ MatchingLines(block) = {}
  /\ block.style \in heading_styles

\* C3 as stated: the heading levels in the output (numeric level of heading
\* sections, number in inferred outline labels) are exactly {1..n}, n the number
\* of distinct heading font sizes.
C3_LevelsDenseInOutput ==
  (pc = "done" /\ all_blocks # <<>>) =>
    /\ LevelsUsed = 1..Cardinality(HeadingSizes)
    /\ OutlineLabels = {HLabel(l) : l \in 1..Cardinality(HeadingSizes)}

\* C3 amended: the levels in the output lie in {1..n} and the inferred outline
\* labels carry the same numbers; they are exactly {1..n} when every heading
\* font size has a heading-style block that is neither a leader-dot artifact nor
\* a list block; the label map itself has labels H1..Hn.
C3_LevelsWithinRange ==
  (pc = "done" /\ all_blocks # <<>>) =>
    LET n == Cardinality(HeadingSizes)
    IN  /\ LevelsUsed \subseteq 1..n
        /\ OutlineLabels = {HLabel(l) : l \in LevelsUsed}
        /\ (\A sz \in HeadingSizes :
              \E b \in 1..Len(all_blocks) :
                all_blocks[b].style[1] = sz /\ IsHeadingBlock(all_blocks[b]))
           => LevelsUsed = 1..n
        /\ DOMAIN level_map = HeadingSizes
        /\ {level_map[sz] : sz \in DOMAIN level_map} = {HLabel(i) : i \in 1..n}

\* two heading sizes, both levels in the output
C3_Witness ==
  /\ pc = "done"
  /\ Cardinality(HeadingSizes) = 2
  /\ LevelsUsed = {1, 2}

HeadingBlocksDone == SelectSeq(SubSeq(all_blocks, 1, k - 1), IsHeadingBlock)

\* C4: without a native ToC, the label of each inferred outline entry is the
\* HeadingLevelMap label of the heading block's font size (H1 for the largest
\* heading size, increasing as the size decreases).
C4_OutlineLabelIsLevelMap ==
  pc = "assemble" =>
    /\ Len(outline) = Len(HeadingBlocksDone)
    /\ \A j \in 1..Len(outline) :
         outline[j].level = level_map[HeadingBlocksDone[j].style[1]]

HasTextBlock ==
  \E p \in 1..Len(doc.pages) : \E i \in 1..Len(doc.pages[p]) :
    doc.pages[p][i].type = 0 /\ Strip(JoinSpans(doc.pages[p][i].spans)) # <<>>

OutlineIsToc ==
  /\ Len(ret.outline) = Len(doc.toc)
  /\ \A i \in 1..Len(doc.toc) :
       ret.outline[i] = [level |-> <<"H">> \o DecDigits(doc.toc[i].level),
                         text |-> doc.toc[i].title, page |-> doc.toc[i].page]

\* C5 as stated: with a non-empty native ToC the returned outline is exactly the
\* ToC entries in order, for every document, also one without text blocks.
C5_TocAlwaysReplaces ==
  (ret.returned /\ doc.toc # <<>>) => OutlineIsToc

\* C5 amended: with a non-empty native ToC and at least one non-empty text
\* block the returned outline is exactly the ToC entries in order and no
\* inferred entry is kept; without any non-empty text block it is empty.
C5_TocReplacesWhenText ==
  (ret.returned /\ doc.toc # <<>>) =>
    IF HasTextBlock THEN OutlineIsToc ELSE ret.outline = <<>>

\* a document with a ToC whose inferred outline had an entry
C5_Witness ==
  /\ ret.returned
  /\ doc.toc # <<>>
  /\ \E i \in 1..Len(content_sections) : content_sections[i].type = "heading"
  /\ ret.outline # <<>>

\* the files process_single_pdf has returned from
Finished == {i \in 1..Len(files) : i < fi \/ bpc = "batch_done"}

\* C6 as stated: every file is attempted exactly once, and an exception at any
\* step (open, form fields, content extraction, static fields, tables, title,
\* JSON write) leaves the document without a completed output.
C6_AnyExceptionNoOutput ==
  /\ \A i \in 1..Len(files) : log[i].attempts <= 1
  /\ \A i \in Finished :
       /\ log[i].attempts = 1
       /\ (log[i].raised # "none" \/ log[i].tables_raised)
            => outputs[i].state # "complete"

\* C6 amended: every file is attempted exactly once whatever happened to the
\* files before it, and the batch never stops before its last file (a step is
\* possible until it is done); an exception at any step other than table
\* extraction is caught at the single-document boundary and leaves that
\* document without a completed output (an exception of the table collaborator
\* is caught inside the table step and the output is still written); every
\* document without such an exception gets its own <stem>.json.
C6_BatchIsolation ==
  /\ \A i \in 1..Len(files) : log[i].attempts <= 1
  /\ \A i \in Finished :
       /\ log[i].attempts = 1
       /\ log[i].raised # "none" => outputs[i].state # "complete"
       /\ log[i].raised = "none" =>
            outputs[i].state = "complete" /\ outputs[i].name = files[i].stem
  /\ \A i \in 1..Len(files) : \A j \in 1..Len(files) :
       (outputs[i].state # "none" /\ outputs[j].state # "none" /\ i # j)
         => outputs[i].name # outputs[j].name
  /\ bpc = "batch_done" \/ ENABLED BatchNext

\* a file is processed to its output after the file before it failed
C6_Witness ==
  /\ bpc = "batch_done"
  /\ Len(files) = 2
  /\ log[1].raised \notin {"none", "open"}
  /\ outputs[1].state # "complete"
  /\ outputs[2].state = "complete"

\* C7: if the table collaborator raises at any point while the file's tables
\* are extracted, the document's table list is empty and the rest of its
\* output is still produced and written.
C7_TablesEmptyOnFailure ==
  \A i \in Finished :
    (log[i].tables_raised /\ log[i].raised = "none") =>
      /\ outputs[i].state = "complete"
      /\ outputs[i].tables = <<>>

\* C8: every handle process_single_pdf opened is closed when it returns, on
\* every exit path; a handle that was never opened is never closed.
C8_HandleReleased ==
  \A i \in Finished :
    /\ log[i].handle # "open"
    /\ log[i].raised = "open" => log[i].handle = "unbound"

\* a < b for two level labels, read as strings
LabelBefore(a, b) ==
  \E n \in 0..Len(a) :
    /\ n <= Len(b)
    /\ SubSeq(a, 1, n) = SubSeq(b, 1, n)
    /\ \/ (n = Len(a) /\ n < Len(b))
       \/ (n < Len(a) /\ n < Len(b) /\ CharCode(a[n + 1]) < CharCode(b[n + 1]))

EntryBefore(x, y) ==
  LabelBefore(x.level, y.level) \/ (x.level = y.level /\ x.page < y.page)

\* the first entry of ol in the order (label as a string, page), ties by position
FirstEntry(ol) ==
  ol[CHOOSE i \in 1..Len(ol) :
       /\ \A j \in 1..Len(ol) : ~EntryBefore(ol[j], ol[i])
       /\ \A j \in 1..(i - 1) : EntryBefore(ol[i], ol[j])]

\* C9: the title written is the cleaned metadata title if that is non-empty;
\* otherwise the text of the first outline entry in the order (level label as a
\* string, page), ties in outline order, if the outline is non-empty and that
\* text is non-empty; otherwise the file's stem.  It is never empty.
C9_TitleChain ==
  \A i \in 1..Len(files) :
    outputs[i].state = "complete" =>
      LET cleaned == get_document_title(files[i].meta)
          ol == outputs[i].outline
      IN  /\ outputs[i].title =
               IF cleaned # <<>> THEN cleaned
               ELSE IF ol # <<>> /\ FirstEntry(ol).text # <<>> THEN FirstEntry(ol).text
               ELSE files[i].stem
          /\ outputs[i].title # <<>>

\* no metadata title; the outline holds H2 before H10, and H10's text is taken
C9_Witness ==
  /\ outputs # <<>>
  /\ outputs[1].state = "complete"
  /\ get_document_title(files[1].meta) = <<>>
  /\ files[1].meta # <<>>
  /\ Len(outputs[1].outline) = 2
  /\ outputs[1].outline[1].level = <<"H", "2">>
  /\ outputs[1].outline[2].level = <<"H", "1", "0">>
  /\ outputs[1].outline[1].text = <<"w">>
  /\ outputs[1].title = <<"x">>

\* C10: every table emitted, after the removal of empty rows and columns, has
\* more than one row or more than one column.
C10_NoDegenerateTable ==
  \A i \in 1..Len(files) :
    outputs[i].state = "complete" =>
      \A t \in 1..Len(outputs[i].tables) :
        \/ Len(outputs[i].tables[t].data) > 1
        \/ Len(outputs[i].tables[t].data[1]) > 1

====
